---- MODULE Spec2Model ----
(***************************************************************************)
(* Model of pyqstrat's evaluator.ipynb: the Evaluator class (a registry of *)
(* named metric functions with dependencies, resolved recursively),        *)
(* handle_non_finite_returns (the clean-up of a returns series), the       *)
(* drawdown and 3-year-window functions, and compute_return_metrics (the   *)
(* checks, the clean-up, the registration of the metrics and compute()).   *)
(***************************************************************************)
EXTENDS Integers, Sequences, FiniteSets, TLC

(***************************************************************************)
(* Bounds of the model.                                                    *)
(***************************************************************************)
MaxDeps == 2          \* longest dependency list passed to add_metric
MaxAdds == 2          \* add_metric calls in one behaviour
MaxCalls == 2         \* compute / compute_metric calls in one behaviour
MaxFunc == 1          \* distinct functions handed to add_metric
ValMod == 3           \* metric values are 0 .. ValMod-1
RecursionLimit == 4   \* depth at which the interpreter raises RecursionError
MaxLen == 3           \* longest returns array handed to handle_non_finite_returns
MaxFin == 1           \* finite returns in the inputs are 0 .. MaxFin
MaxSanCalls == 2      \* handle_non_finite_returns calls on the same arrays
MaxDate == 5          \* dates handed to the drawdown and 3-year functions are 1 .. MaxDate
MaxVal == 2           \* values handed to them are -MaxVal .. MaxVal
PipeLen == 2          \* longest array handed to compute_return_metrics

\* Metric names used by the model.
Names == {"x", "y", "z"}

\* Marker for "this key is not in the dict".
Absent == -1

Funcs == 1 .. MaxFunc

RECURSIVE SeqsUpTo(_, _)
SeqsUpTo(S, n) ==
    IF n = 0 THEN {<<>>}
    ELSE LET shorter == SeqsUpTo(S, n - 1)
         IN  shorter \cup {Append(s, e) : s \in {t \in shorter : Len(t) = n - 1}, e \in S}

DepLists == SeqsUpTo(Names, MaxDeps)

VARIABLES
    metric_values,   \* Evaluator.metric_values: name -> value, Absent when not a key
    _metrics,        \* Evaluator._metrics: insertion-ordered dict name -> (func, dependencies)
    pending,         \* metric names compute() has still to pass to compute_metric
    stack,           \* active compute_metric frames, outermost first
    status,          \* "idle", "running", "ok", "KeyError" or "RecursionError"
    op,              \* the public method called last
    target,          \* the argument of the last compute_metric call from outside
    entry,           \* metric_values as it was when the last outside call began
    calls,           \* per name, invocations of its function during the last outside call
    nadds,           \* add_metric calls so far
    ncalls           \* compute / compute_metric calls so far

evars == <<metric_values, _metrics, pending, stack, status, op, target, entry,
           calls, nadds, ncalls>>

VARIABLES
    caller_timestamps,            \* the caller's timestamps array (the object passed in)
    caller_rets,                  \* the caller's rets array (the object passed in)
    input_timestamps,             \* the caller's timestamps as first built
    input_rets,                   \* the caller's rets as first built
    orig_timestamps,              \* caller_timestamps when the current call began
    orig_rets,                    \* caller_rets when the current call began
    timestamps,                   \* local timestamps of handle_non_finite_returns
    rets,                         \* local rets of handle_non_finite_returns
    leading_non_finite_to_zeros,  \* argument
    subsequent_non_finite_to_zeros, \* argument
    first_non_nan_index,          \* local, 0-based as in the source
    lead_timestamps,              \* local timestamps after lines 410-415
    lead_rets,                    \* local rets after lines 410-415
    pc,                           \* "idle", "leading", "subsequent" or "done"
    nsan                          \* handle_non_finite_returns calls so far

svars == <<caller_timestamps, caller_rets, input_timestamps, input_rets, orig_timestamps,
           orig_rets, timestamps, rets, leading_non_finite_to_zeros,
           subsequent_non_finite_to_zeros, first_non_nan_index, lead_timestamps,
           lead_rets, pc, nsan>>

VARIABLES
    lib_timestamps,   \* the dates handed to the drawdown and 3-year functions
    lib_values,       \* the values handed along with them (equity, returns, drawdowns)
    rolling_dd,       \* result of compute_rolling_dd(lib_timestamps, lib_values)
    timestamps_3yr,   \* result of compute_dates_3yr(lib_timestamps)
    returns_3yr,      \* result of compute_returns_3yr(lib_timestamps, lib_values)
    rolling_dd_3yr,   \* result of compute_rolling_dd_3yr(lib_timestamps, lib_values)
    mdd_date,         \* result of compute_maxdd_date(lib_timestamps, lib_values)
    mdd_start,        \* result of compute_maxdd_start(lib_timestamps, lib_values, mdd_date)
    applied           \* the groups of functions applied so far

lvars == <<lib_timestamps, lib_values, rolling_dd, timestamps_3yr, returns_3yr,
           rolling_dd_3yr, mdd_date, mdd_start, applied>>

VARIABLES
    ppc,                       \* where compute_return_metrics is: "off", "start", "checked",
                               \* "registered", "returned" or "AssertionError"
    starting_equity,           \* argument
    rets_is_float64,           \* type(rets) == np.ndarray and rets.dtype == np.float64
    timestamps_is_datetime64,  \* timestamps is an ndarray of a datetime64 dtype
    bound                      \* the keyword arguments of the last call of a metric function

pvars == <<ppc, starting_equity, rets_is_float64, timestamps_is_datetime64, bound>>

vars == <<evars, svars, lvars, pvars>>

(***************************************************************************)
(* Dict helpers.                                                           *)
(***************************************************************************)
\* list(self._metrics.keys()): the registered names in insertion order.
Keys(reg) == [i \in 1 .. Len(reg) |-> reg[i].name]

\* metric_name in self._metrics
Registered(reg, n) == \E i \in 1 .. Len(reg) : reg[i].name = n

\* self._metrics[metric_name] (only used when Registered)
Recipe(reg, n) == reg[CHOOSE i \in 1 .. Len(reg) : reg[i].name = n]

\* self._metrics[name] = (func, dependencies): a new key goes last, an
\* existing key keeps its position and gets the new value.
Put(reg, n, f, deps) ==
    IF Registered(reg, n)
    THEN [i \in 1 .. Len(reg) |->
            IF reg[i].name = n THEN [name |-> n, func |-> f, dependencies |-> deps]
            ELSE reg[i]]
    ELSE Append(reg, [name |-> n, func |-> f, dependencies |-> deps])

\* Mutant of Resolved: every key counts as present.
ResolvedAlways(mv, d) == TRUE

\* Mutant of Resolved: a name that has a recipe counts as having a value.
ResolvedOrRegistered(mv, d) ==
    mv[d] # Absent \/ \E i \in 1 .. Len(_metrics) : _metrics[i].name = d

\* k in self.metric_values
Resolved(mv, d) == mv[d] # Absent

RECURSIVE SumSeq(_)
SumSeq(s) == IF s = <<>> THEN 0 ELSE Head(s) + SumSeq(Tail(s))

\* values = func(**dependency_values): the function is a stand-in whose result
\* depends on which function it is and on the values it is given.
CallFunc(f, deps, mv) ==
    (f + SumSeq([i \in 1 .. Len(deps) |-> IF mv[deps[i]] = Absent THEN 0 ELSE mv[deps[i]]])) % ValMod

(***************************************************************************)
(* Evaluator.__init__                                                      *)
(***************************************************************************)
EvalInit ==
    /\ \E seeds \in SUBSET Names :
          metric_values = [n \in Names |-> IF n \in seeds THEN 0 ELSE Absent]
    /\ _metrics = <<>>
    /\ pending = <<>>
    /\ stack = <<>>
    /\ status = "idle"
    /\ op = "init"
    /\ target = "x"
    /\ entry = metric_values
    /\ calls = [n \in Names |-> 0]
    /\ nadds = 0
    /\ ncalls = 0

\* An evaluator nobody uses (the clean-up of a series is looked at on its own).
EvalOff ==
    /\ metric_values = [n \in Names |-> Absent]
    /\ _metrics = <<>>
    /\ pending = <<>>
    /\ stack = <<>>
    /\ status = "idle"
    /\ op = "init"
    /\ target = "x"
    /\ entry = metric_values
    /\ calls = [n \in Names |-> 0]
    /\ nadds = 0
    /\ ncalls = 0

(***************************************************************************)
(* Evaluator.add_metric                                                    *)
(***************************************************************************)
add_metric(name, func, dependencies) ==
    /\ status # "running"
    /\ nadds < MaxAdds
    /\ _metrics' = Put(_metrics, name, func, dependencies)
    /\ nadds' = nadds + 1
    /\ status' = "idle"
    /\ op' = "add_metric"
    /\ UNCHANGED <<metric_values, pending, stack, target, entry, calls, ncalls>>
    /\ UNCHANGED <<svars, lvars, pvars>>

(***************************************************************************)
(* Entering compute_metric(n) with the frames in stk below it: the         *)
(* interpreter refuses a frame beyond its recursion limit, and line 365    *)
(* (func, dependencies = self._metrics[metric_name]) raises KeyError for a *)
(* name that is not registered.                                            *)
(***************************************************************************)
EnterStatus(stk, n) ==
    IF Len(stk) >= RecursionLimit THEN "RecursionError"
    ELSE IF ~Registered(_metrics, n) THEN "KeyError"
    ELSE "running"

\* The frames after the call: the new frame on top, or none when it raised
\* (the exception unwinds every frame, nothing catches it).
EnterStack(stk, n) ==
    IF EnterStatus(stk, n) = "running" THEN Append(stk, [name |-> n, i |-> 1]) ELSE <<>>

\* Mutant of ComputeNames: the first registered name is skipped.
ComputeNamesSkipFirst(reg) == IF reg = <<>> THEN <<>> ELSE Tail(Keys(reg))

\* if metric_names is None: metric_names = list(self._metrics.keys())
ComputeNames(reg) == Keys(reg)

(***************************************************************************)
(* Evaluator.compute() without metric_names                                *)
(***************************************************************************)
compute ==
    /\ status # "running"
    /\ ncalls < MaxCalls
    /\ ncalls' = ncalls + 1
    /\ op' = "compute"
    /\ entry' = metric_values
    /\ calls' = [n \in DOMAIN metric_values |-> 0]
    /\ pending' = ComputeNames(_metrics)
    /\ stack' = <<>>
    /\ status' = "running"
    /\ UNCHANGED <<metric_values, _metrics, target, nadds>>
    /\ UNCHANGED <<svars, lvars, pvars>>

\* for metric_name in metric_names: self.compute_metric(metric_name)
compute_loop ==
    /\ status = "running"
    /\ stack = <<>>
    /\ IF pending = <<>>
       THEN /\ status' = "ok"
            /\ UNCHANGED <<pending, stack>>
       ELSE /\ status' = EnterStatus(<<>>, Head(pending))
            /\ stack' = EnterStack(<<>>, Head(pending))
            /\ pending' = IF status' = "running" THEN Tail(pending) ELSE <<>>
    /\ UNCHANGED <<metric_values, _metrics, op, target, entry, calls, nadds, ncalls>>
    /\ UNCHANGED <<svars, lvars, pvars>>

(***************************************************************************)
(* Evaluator.compute_metric(metric_name) called from outside               *)
(***************************************************************************)
compute_metric(metric_name) ==
    /\ status # "running"
    /\ ncalls < MaxCalls
    /\ ncalls' = ncalls + 1
    /\ op' = "compute_metric"
    /\ target' = metric_name
    /\ entry' = metric_values
    /\ calls' = [n \in Names |-> 0]
    /\ pending' = <<>>
    /\ status' = EnterStatus(<<>>, metric_name)
    /\ stack' = EnterStack(<<>>, metric_name)
    /\ UNCHANGED <<metric_values, _metrics, nadds>>
    /\ UNCHANGED <<svars, lvars, pvars>>

(***************************************************************************)
(* The body of compute_metric, one step of the innermost frame at a time.  *)
(***************************************************************************)
Top == stack[Len(stack)]
TopDeps == Recipe(_metrics, Top.name).dependencies

\* The caller's frame moves on to its next dependency when a call returns.
Return(stk) ==
    LET below == SubSeq(stk, 1, Len(stk) - 1)
    IN  IF below = <<>> THEN below
        ELSE [below EXCEPT ![Len(below)].i = @ + 1]

\* for dependency in dependencies:
\*     if dependency not in self.metric_values: self.compute_metric(dependency)
dependency_loop ==
    /\ status = "running"
    /\ stack # <<>>
    /\ Top.i <= Len(TopDeps)
    /\ LET dependency == TopDeps[Top.i]
       IN  IF Resolved(metric_values, dependency)
           THEN /\ stack' = [stack EXCEPT ![Len(stack)].i = @ + 1]
                /\ UNCHANGED <<status, pending>>
           ELSE /\ status' = EnterStatus(stack, dependency)
                /\ stack' = EnterStack(stack, dependency)
                /\ pending' = IF status' = "running" THEN pending ELSE <<>>
    /\ UNCHANGED <<metric_values, _metrics, op, target, entry, calls, nadds, ncalls>>
    /\ UNCHANGED <<svars, lvars, pvars>>

\* dependency_values = {k: self.metric_values[k] for k in dependencies}
\* values = func(**dependency_values)
\* self.metric_values[metric_name] = values
invoke ==
    /\ status = "running"
    /\ stack # <<>>
    /\ Top.i > Len(TopDeps)
    /\ IF \A k \in 1 .. Len(TopDeps) : Resolved(metric_values, TopDeps[k])
       THEN /\ metric_values' = [metric_values EXCEPT ![Top.name] =
                    CallFunc(Recipe(_metrics, Top.name).func, TopDeps, metric_values)]
            /\ calls' = [calls EXCEPT ![Top.name] = @ + 1]
            /\ stack' = Return(stack)
            /\ status' = IF stack' = <<>> /\ op = "compute_metric" THEN "ok" ELSE "running"
            /\ UNCHANGED pending
       ELSE /\ status' = "KeyError"
            /\ stack' = <<>>
            /\ pending' = <<>>
            /\ UNCHANGED <<metric_values, calls>>
    /\ UNCHANGED <<_metrics, op, target, entry, nadds, ncalls>>
    /\ UNCHANGED <<svars, lvars, pvars>>

EvalNext ==
    \/ \E name \in Names, func \in Funcs, dependencies \in DepLists :
          add_metric(name, func, dependencies)
    \/ compute
    \/ compute_loop
    \/ \E metric_name \in Names : compute_metric(metric_name)
    \/ dependency_loop
    \/ invoke

(***************************************************************************)
(* Floating point values: NaN, the two infinities and finite numbers.      *)
(***************************************************************************)
NaN == <<"nan", 0>>
PosInf == <<"inf", 1>>
NegInf == <<"inf", -1>>
Fin(v) == <<"fin", v>>

\* The largest finite float64, which np.nan_to_num puts in place of infinity.
FloatMax == 1000

\* np.isnan
isnan(x) == x[1] = "nan"

\* np.isfinite
isfinite(x) == x[1] = "fin"

\* Mutant of nan_to_num: only NaN is replaced, an infinity stays.
NanToNumNanOnly(x) == IF isnan(x) THEN Fin(0) ELSE x

\* np.nan_to_num on one element: NaN becomes 0.0, +infinity the largest finite
\* float, -infinity the most negative one; a finite value stays.
nan_to_num(x) ==
    IF isnan(x) THEN Fin(0)
    ELSE IF x = PosInf THEN Fin(FloatMax)
    ELSE IF x = NegInf THEN Fin(0 - FloatMax)
    ELSE x

\* Where a slice bound i falls in an array of length n: a negative bound counts
\* from the end, and a bound outside the array is clipped.
SliceBound(i, n) ==
    IF i < 0 THEN (IF n + i < 0 THEN 0 ELSE n + i)
    ELSE (IF i > n THEN n ELSE i)

\* a[i:]
SliceFrom(a, i) == SubSeq(a, SliceBound(i, Len(a)) + 1, Len(a))

\* a[mask]: the elements of a at the positions where keep holds, in order.
RECURSIVE Mask(_, _)
Mask(a, keep) ==
    IF a = <<>> THEN <<>>
    ELSE IF Head(keep) THEN <<Head(a)>> \o Mask(Tail(a), Tail(keep))
    ELSE Mask(Tail(a), Tail(keep))

\* Lines 404-408: the 0-based index of the first entry that is not NaN, -1 if none.
FirstNonNan(r) ==
    IF \E k \in 1 .. Len(r) : ~isnan(r[k])
    THEN (CHOOSE k \in 1 .. Len(r) : ~isnan(r[k]) /\ \A j \in 1 .. (k - 1) : isnan(r[j])) - 1
    ELSE -1

\* Mutant of LeadingApplies: the -1 of "no such index" is not told from an index.
LeadingAppliesNonZero(i, n) == i # 0

\* if first_non_nan_index > 0 and first_non_nan_index < len(rets):
LeadingApplies(i, n) == i > 0 /\ i < n

\* rets[:i] = np.nan_to_num(rets[:i]), written into the array itself
ZeroPrefix(r, i) ==
    [k \in 1 .. Len(r) |-> IF k <= SliceBound(i, Len(r)) THEN nan_to_num(r[k]) ELSE r[k]]

\* Lines 410-415, what the local timestamps holds after them: cut at the first
\* entry that is not NaN when the leading ones are dropped, else as it was.
LeadingTimestamps(ts, r, i, leading) ==
    IF LeadingApplies(i, Len(r)) /\ ~leading THEN SliceFrom(ts, i) ELSE ts

\* Lines 410-415, what the local rets holds after them.
LeadingRets(r, i, leading) ==
    IF LeadingApplies(i, Len(r))
    THEN (IF leading THEN ZeroPrefix(r, i) ELSE SliceFrom(r, i))
    ELSE r

\* Mutant of TimestampsMask: the timestamps are selected by "not NaN".
TimestampsMaskNotNan(r) == [k \in 1 .. Len(r) |-> ~isnan(r[k])]

\* Line 420, the mask np.isfinite(rets) that selects from timestamps; rets is
\* still the unfiltered array there.
TimestampsMask(r) == [k \in 1 .. Len(r) |-> isfinite(r[k])]

\* Line 421, the mask np.isfinite(rets) that selects from rets.
RetsMask(r) == [k \in 1 .. Len(r) |-> isfinite(r[k])]

\* timestamps[np.isfinite(rets)] with arrays of different lengths: numpy
\* raises IndexError (boolean index did not match indexed array).
MaskFails(ts, r, subsequent) == ~subsequent /\ Len(ts) # Len(r)

\* Lines 417-421, what the local timestamps holds after them.
SubsequentTimestamps(ts, r, subsequent) ==
    IF subsequent THEN ts ELSE Mask(ts, TimestampsMask(r))

\* Lines 417-421, what the local rets holds after them.
SubsequentRets(r, subsequent) ==
    IF subsequent THEN [k \in 1 .. Len(r) |-> nan_to_num(r[k])] ELSE Mask(r, RetsMask(r))

\* Lines 404-423 as a whole, for arrays of equal length: the pair returned.
handle_non_finite_returns_result(ts, r, leading, subsequent) ==
    LET i == FirstNonNan(r)
        lt == LeadingTimestamps(ts, r, i, leading)
        lr == LeadingRets(r, i, leading)
    IN  <<SubsequentTimestamps(lt, lr, subsequent), SubsequentRets(lr, subsequent)>>

FinVals == 0 .. MaxFin
Floats == {NaN, PosInf, NegInf} \cup {Fin(v) : v \in FinVals}
Times == 1 .. (MaxLen + 1)

\* Strictly increasing timestamps.
Increasing(t) == \A k \in 1 .. (Len(t) - 1) : t[k] < t[k + 1]

(***************************************************************************)
(* The caller builds two arrays of the same length.                        *)
(***************************************************************************)
SanInit ==
    /\ \E n \in 0 .. MaxLen :
          /\ caller_rets \in [1 .. n -> Floats]
          /\ caller_timestamps \in {t \in [1 .. n -> Times] : Increasing(t)}
    /\ input_timestamps = caller_timestamps
    /\ input_rets = caller_rets
    /\ orig_timestamps = caller_timestamps
    /\ orig_rets = caller_rets
    /\ timestamps = <<>>
    /\ rets = <<>>
    /\ leading_non_finite_to_zeros = FALSE
    /\ subsequent_non_finite_to_zeros = FALSE
    /\ first_non_nan_index = -1
    /\ lead_timestamps = <<>>
    /\ lead_rets = <<>>
    /\ pc = "idle"
    /\ nsan = 0

\* No array is being cleaned (the evaluator is looked at on its own).
SanOff ==
    /\ caller_timestamps = <<>>
    /\ caller_rets = <<>>
    /\ input_timestamps = <<>>
    /\ input_rets = <<>>
    /\ orig_timestamps = <<>>
    /\ orig_rets = <<>>
    /\ timestamps = <<>>
    /\ rets = <<>>
    /\ leading_non_finite_to_zeros = FALSE
    /\ subsequent_non_finite_to_zeros = FALSE
    /\ first_non_nan_index = -1
    /\ lead_timestamps = <<>>
    /\ lead_rets = <<>>
    /\ pc = "idle"
    /\ nsan = 0

(***************************************************************************)
(* handle_non_finite_returns, lines 404-408: the call binds the caller's   *)
(* arrays to the locals and finds first_non_nan_index.                     *)
(***************************************************************************)
handle_non_finite_returns(leading, subsequent) ==
    /\ pc \in {"idle", "done"}
    /\ nsan < MaxSanCalls
    /\ nsan' = nsan + 1
    /\ leading_non_finite_to_zeros' = leading
    /\ subsequent_non_finite_to_zeros' = subsequent
    /\ orig_timestamps' = caller_timestamps
    /\ orig_rets' = caller_rets
    /\ timestamps' = caller_timestamps
    /\ rets' = caller_rets
    /\ first_non_nan_index' = FirstNonNan(caller_rets)
    /\ pc' = "leading"
    /\ UNCHANGED <<caller_timestamps, caller_rets, input_timestamps, input_rets,
                   lead_timestamps, lead_rets>>
    /\ UNCHANGED <<evars, lvars, pvars>>

\* Lines 410-415. The local rets is still the caller's array, so the slice
\* assignment of line 412 writes into the caller's array.
leading_step ==
    /\ pc = "leading"
    /\ timestamps' = LeadingTimestamps(timestamps, rets, first_non_nan_index,
                                       leading_non_finite_to_zeros)
    /\ rets' = LeadingRets(rets, first_non_nan_index, leading_non_finite_to_zeros)
    /\ caller_rets' = IF LeadingApplies(first_non_nan_index, Len(rets))
                         /\ leading_non_finite_to_zeros
                      THEN rets' ELSE caller_rets
    /\ lead_timestamps' = timestamps'
    /\ lead_rets' = rets'
    /\ pc' = "subsequent"
    /\ UNCHANGED <<caller_timestamps, input_timestamps, input_rets, orig_timestamps,
                   orig_rets, leading_non_finite_to_zeros, subsequent_non_finite_to_zeros,
                   first_non_nan_index, nsan>>
    /\ UNCHANGED <<evars, lvars, pvars>>

\* Lines 417-423. np.nan_to_num(rets) and the boolean-mask selections build new
\* arrays; the locals then hold what the function returns. A boolean mask of
\* another length than the array it selects from raises IndexError.
subsequent_step ==
    /\ pc = "subsequent"
    /\ IF MaskFails(timestamps, rets, subsequent_non_finite_to_zeros)
       THEN /\ pc' = "IndexError"
            /\ UNCHANGED <<timestamps, rets>>
       ELSE /\ timestamps' = SubsequentTimestamps(timestamps, rets,
                                                  subsequent_non_finite_to_zeros)
            /\ rets' = SubsequentRets(rets, subsequent_non_finite_to_zeros)
            /\ pc' = "done"
    /\ UNCHANGED <<caller_timestamps, caller_rets, input_timestamps, input_rets,
                   orig_timestamps, orig_rets, leading_non_finite_to_zeros,
                   subsequent_non_finite_to_zeros, first_non_nan_index,
                   lead_timestamps, lead_rets, nsan>>
    /\ UNCHANGED <<evars, lvars, pvars>>

SanNext ==
    \/ \E leading \in BOOLEAN, subsequent \in BOOLEAN :
          handle_non_finite_returns(leading, subsequent)
    \/ leading_step
    \/ subsequent_step

(***************************************************************************)
(* Drawdowns and the 3-year window. A date is a whole number of years, a   *)
(* value an integer; a drawdown is a fraction <<numerator, denominator>>,  *)
(* kept unreduced so that a zero or negative denominator stays visible.    *)
(***************************************************************************)
\* pd.NaT, the missing date.
NaT == 0

\* d.replace(year=d.year - 3): the years taken off the last date.
WindowYears == 3

Dates == 1 .. MaxDate
Values == (0 - MaxVal) .. MaxVal

\* s.expanding(min_periods=1).max() at place k: the largest value so far.
RollingMax(s, k) == CHOOSE v \in {s[j] : j \in 1 .. k} : \A j \in 1 .. k : s[j] <= v

\* Mutant of Drawdown: the minus sign in front of the difference is left out.
DrawdownNotNegated(s, rolling_max) ==
    IF s >= rolling_max THEN <<0, 1>> ELSE <<s - rolling_max, rolling_max>>

\* np.where(s >= rolling_max, 0.0, -(s - rolling_max) / rolling_max) at one place
Drawdown(s, rolling_max) ==
    IF s >= rolling_max THEN <<0, 1>> ELSE <<0 - (s - rolling_max), rolling_max>>

\* Lines 188-201. The result is the pair (timestamps, dd); the lengths are
\* equal wherever the model calls it.
compute_rolling_dd(ts, equity) ==
    IF Len(ts) = 0 THEN <<<<>>, <<>>>>
    ELSE <<ts, [k \in 1 .. Len(equity) |-> Drawdown(equity[k], RollingMax(equity, k))]>>

\* np.argmax: the first place (from 1) that holds the largest value.
argmax(a) ==
    CHOOSE i \in 1 .. Len(a) :
        /\ \A j \in 1 .. Len(a) : a[j] <= a[i]
        /\ \A j \in 1 .. (i - 1) : a[j] < a[i]

\* Lines 210-214.
compute_maxdd_date(rolling_dd_dates, dd) ==
    IF Len(rolling_dd_dates) = 0 THEN NaT ELSE rolling_dd_dates[argmax(dd)]

\* Mutant of DateBefore: the date of the maximum itself is let through.
DateUpTo(d, date) == d <= date

\* rolling_dd_dates < mdd_date at one place
DateBefore(d, date) == d < date

\* Lines 217-224.
compute_maxdd_start(rolling_dd_dates, dd, date) ==
    IF Len(rolling_dd_dates) = 0 \/ date = NaT THEN NaT
    ELSE LET maxdd_dates ==
                 Mask(rolling_dd_dates,
                      [k \in 1 .. Len(dd) |-> dd[k] <= 0 /\ DateBefore(rolling_dd_dates[k], date)])
         IN  IF Len(maxdd_dates) = 0 THEN NaT ELSE maxdd_dates[Len(maxdd_dates)]

\* Lines 235-238 and 254-257: the last date with its year lowered by three.
start_3yr(ts) == ts[Len(ts)] - WindowYears

\* Lines 233-239.
compute_dates_3yr(ts) ==
    IF Len(ts) = 0 THEN <<>>
    ELSE Mask(ts, [k \in 1 .. Len(ts) |-> ts[k] > start_3yr(ts)])

\* Lines 242-248.
compute_returns_3yr(ts, returns) ==
    IF Len(ts) = 0 THEN <<>>
    ELSE Mask(returns, [k \in 1 .. Len(ts) |-> ts[k] >= compute_dates_3yr(ts)[1]])

\* Lines 251-259. For no timestamps the result is one empty array, not a pair.
compute_rolling_dd_3yr(ts, equity) ==
    IF Len(ts) = 0 THEN <<>>
    ELSE compute_rolling_dd(Mask(ts, [k \in 1 .. Len(ts) |-> ts[k] >= start_3yr(ts)]),
                            Mask(equity, [k \in 1 .. Len(ts) |-> ts[k] >= start_3yr(ts)]))

\* The caller hands over dates in increasing order and as many values.
LibInit ==
    /\ \E n \in 0 .. MaxLen :
          /\ lib_timestamps \in {t \in [1 .. n -> Dates] : Increasing(t)}
          /\ lib_values \in [1 .. n -> Values]
    /\ rolling_dd = <<<<>>, <<>>>>
    /\ timestamps_3yr = <<>>
    /\ returns_3yr = <<>>
    /\ rolling_dd_3yr = <<>>
    /\ mdd_date = NaT
    /\ mdd_start = NaT
    /\ applied = {}

\* None of these functions is being looked at.
LibOff ==
    /\ lib_timestamps = <<>>
    /\ lib_values = <<>>
    /\ rolling_dd = <<<<>>, <<>>>>
    /\ timestamps_3yr = <<>>
    /\ returns_3yr = <<>>
    /\ rolling_dd_3yr = <<>>
    /\ mdd_date = NaT
    /\ mdd_start = NaT
    /\ applied = {}

\* compute_rolling_dd applied to the values as an equity curve.
apply_rolling_dd ==
    /\ "rolling_dd" \notin applied
    /\ applied' = applied \cup {"rolling_dd"}
    /\ rolling_dd' = compute_rolling_dd(lib_timestamps, lib_values)
    /\ UNCHANGED <<lib_timestamps, lib_values, timestamps_3yr, returns_3yr,
                   rolling_dd_3yr, mdd_date, mdd_start>>
    /\ UNCHANGED <<evars, svars, pvars>>

\* The three functions of the 3-year window applied to the same arrays.
apply_3yr ==
    /\ "3yr" \notin applied
    /\ applied' = applied \cup {"3yr"}
    /\ timestamps_3yr' = compute_dates_3yr(lib_timestamps)
    /\ returns_3yr' = compute_returns_3yr(lib_timestamps, lib_values)
    /\ rolling_dd_3yr' = compute_rolling_dd_3yr(lib_timestamps, lib_values)
    /\ UNCHANGED <<lib_timestamps, lib_values, rolling_dd, mdd_date, mdd_start>>
    /\ UNCHANGED <<evars, svars, pvars>>

\* compute_maxdd_date, then compute_maxdd_start with its result, applied to
\* the values as a drawdown series.
apply_maxdd ==
    /\ "maxdd" \notin applied
    /\ applied' = applied \cup {"maxdd"}
    /\ mdd_date' = compute_maxdd_date(lib_timestamps, lib_values)
    /\ mdd_start' = compute_maxdd_start(lib_timestamps, lib_values, mdd_date')
    /\ UNCHANGED <<lib_timestamps, lib_values, rolling_dd, timestamps_3yr,
                   returns_3yr, rolling_dd_3yr>>
    /\ UNCHANGED <<evars, svars, pvars>>

LibNext ==
    \/ apply_rolling_dd
    \/ apply_3yr
    \/ apply_maxdd

(***************************************************************************)
(* compute_return_metrics. A metric value is kept as a code for its shape  *)
(* and for what later functions test of it; the arrays themselves are the  *)
(* locals timestamps and rets that handle_non_finite_returns returned.     *)
(***************************************************************************)
NanValue == 1        \* np.nan
FloatValue == 2      \* a float computed from the data (NaN is possible)
PositiveValue == 3   \* a float or int known to be > 0
NaTValue == 4        \* pd.NaT
DateValue == 5       \* a datetime64 taken from the data
ArrayBase == 100
PairBase == 200
CountBase == 300

\* A numpy array of n entries.
Array(n) == ArrayBase + n
IsArray(c) == c >= ArrayBase /\ c < PairBase
ArrayLen(c) == c - ArrayBase

\* A tuple of two arrays (or lists) of n entries each.
Pair(n) == PairBase + n
IsPair(c) == c >= PairBase /\ c < CountBase
PairLen(c) == c - PairBase

\* A Python int n >= 0.
Count(n) == CountBase + n
CountOf(c) == c - CountBase

\* Evaluator({'timestamps': ..., 'returns': ..., 'starting_equity': ...})
Seeds == {"timestamps", "returns", "starting_equity"}

\* One ev.add_metric(name, func, dependencies) of lines 466-503.
Registration(n, f, deps) == [name |-> n, func |-> f, dependencies |-> deps]

\* Lines 466-503, in order. A lambda is named after the metric it is given to.
Registrations == <<
    Registration("periods_per_year", "compute_periods_per_year", <<"timestamps">>),
    Registration("amean", "compute_amean", <<"returns", "periods_per_year">>),
    Registration("std", "compute_std", <<"returns">>),
    Registration("up_periods", "lambda_up_periods", <<"returns">>),
    Registration("down_periods", "lambda_down_periods", <<"returns">>),
    Registration("up_pct", "lambda_up_pct", <<"up_periods", "down_periods">>),
    Registration("gmean", "compute_gmean", <<"timestamps", "returns", "periods_per_year">>),
    Registration("sharpe", "compute_sharpe", <<"returns", "periods_per_year", "amean">>),
    Registration("sortino", "compute_sortino", <<"returns", "periods_per_year", "amean">>),
    Registration("equity", "compute_equity", <<"timestamps", "starting_equity", "returns">>),
    Registration("k_ratio", "compute_k_ratio", <<"equity", "periods_per_year">>),
    Registration("k_ratio_weighted", "lambda_k_ratio_weighted", <<"equity", "periods_per_year">>),
    Registration("rolling_dd", "compute_rolling_dd", <<"timestamps", "equity">>),
    Registration("mdd_pct", "lambda_mdd_pct", <<"rolling_dd">>),
    Registration("mdd_date", "lambda_mdd_date", <<"rolling_dd">>),
    Registration("mdd_start", "lambda_mdd_start", <<"rolling_dd", "mdd_date">>),
    Registration("mar", "compute_mar", <<"returns", "periods_per_year", "mdd_pct">>),
    Registration("timestamps_3yr", "compute_dates_3yr", <<"timestamps">>),
    Registration("returns_3yr", "compute_returns_3yr", <<"timestamps", "returns">>),
    Registration("rolling_dd_3yr", "compute_rolling_dd_3yr", <<"timestamps", "equity">>),
    Registration("mdd_pct_3yr", "lambda_mdd_pct_3yr", <<"rolling_dd_3yr">>),
    Registration("mdd_date_3yr", "lambda_mdd_date_3yr", <<"rolling_dd_3yr">>),
    Registration("mdd_start_3yr", "lambda_mdd_start_3yr", <<"rolling_dd_3yr", "mdd_date_3yr">>),
    Registration("calmar", "compute_calmar", <<"returns_3yr", "periods_per_year", "mdd_pct_3yr">>),
    Registration("annual_returns", "compute_annual_returns",
                 <<"timestamps", "returns", "periods_per_year">>),
    Registration("bucketed_returns", "compute_bucketed_returns", <<"timestamps", "returns">>) >>

\* The keys metric_values can have: the seeds and the registered names.
PipeNames == Seeds \cup {Registrations[i].name : i \in 1 .. Len(Registrations)}

\* The add_metric calls made one after the other on the registry reg.
RECURSIVE AddAll(_, _)
AddAll(reg, regs) ==
    IF regs = <<>> THEN reg
    ELSE AddAll(Put(reg, Head(regs).name, Head(regs).func, Head(regs).dependencies),
                Tail(regs))

\* The parameters of each function, in the order of its def or lambda.
Params(func) ==
    CASE func = "compute_periods_per_year" -> <<"timestamps">>
      [] func = "compute_amean" -> <<"returns", "periods_per_year">>
      [] func = "compute_std" -> <<"returns">>
      [] func = "lambda_up_periods" -> <<"returns">>
      [] func = "lambda_down_periods" -> <<"returns">>
      [] func = "lambda_up_pct" -> <<"up_periods", "down_periods">>
      [] func = "compute_gmean" -> <<"timestamps", "returns", "periods_per_year">>
      [] func = "compute_sharpe" -> <<"returns", "amean", "periods_per_year">>
      [] func = "compute_sortino" -> <<"returns", "amean", "periods_per_year">>
      [] func = "compute_equity" -> <<"timestamps", "starting_equity", "returns">>
      [] func = "compute_k_ratio" -> <<"equity", "periods_per_year", "halflife_years">>
      [] func = "lambda_k_ratio_weighted" -> <<"equity", "periods_per_year">>
      [] func = "compute_rolling_dd" -> <<"timestamps", "equity">>
      [] func = "lambda_mdd_pct" -> <<"rolling_dd">>
      [] func = "lambda_mdd_date" -> <<"rolling_dd">>
      [] func = "lambda_mdd_start" -> <<"rolling_dd", "mdd_date">>
      [] func = "compute_mar" -> <<"returns", "periods_per_year", "mdd_pct">>
      [] func = "compute_dates_3yr" -> <<"timestamps">>
      [] func = "compute_returns_3yr" -> <<"timestamps", "returns">>
      [] func = "compute_rolling_dd_3yr" -> <<"timestamps", "equity">>
      [] func = "lambda_mdd_pct_3yr" -> <<"rolling_dd_3yr">>
      [] func = "lambda_mdd_date_3yr" -> <<"rolling_dd_3yr">>
      [] func = "lambda_mdd_start_3yr" -> <<"rolling_dd_3yr", "mdd_date_3yr">>
      [] func = "compute_calmar" -> <<"returns_3yr", "periods_per_year", "mdd_pct_3yr">>
      [] func = "compute_annual_returns" -> <<"timestamps", "returns", "periods_per_year">>
      [] func = "compute_bucketed_returns" -> <<"timestamps", "returns">>

\* The parameters that have a default (halflife_years: float = None).
Defaulted(func) == IF func = "compute_k_ratio" THEN {"halflife_years"} ELSE {}

ToSet(s) == {s[i] : i \in 1 .. Len(s)}

\* func(**dependency_values) raises TypeError for a keyword the function has
\* no parameter for, and for a parameter without default that gets no value.
BindFails(func, deps) ==
    \/ \E d \in ToSet(deps) : d \notin ToSet(Params(func))
    \/ \E q \in ToSet(Params(func)) : q \notin ToSet(deps) /\ q \notin Defaulted(func)

\* Mutant of Bind: the values are handed over by position, func(*values).
BindPositional(params, deps, mv) ==
    [q \in {params[i] : i \in 1 .. Len(deps)} |->
        mv[deps[CHOOSE i \in 1 .. Len(deps) : params[i] = q]]]

\* dependency_values = {k: self.metric_values[k] for k in dependencies}
\* func(**dependency_values): each value goes to the parameter of its key.
Bind(params, deps, mv) == [q \in ToSet(deps) |-> mv[q]]

\* What a call of a metric function ends in: a value, or an exception. The
\* exceptions are those the code of this file raises itself: a failed assert,
\* an index into an empty array, a boolean mask of another length. The
\* arithmetic done inside numpy, pandas and statsmodels is taken to return.
Ok(v) == {[err |-> "none", val |-> v]}
Raise(e) == {[err |-> e, val |-> Absent]}

\* pyqstrat.pq_utils.infer_frequency: 0 when the timestamps show no periodic
\* pattern, else the dominant gap (31 for a gap of a month).
infer_frequency(ts) == {0, 1, 31}

\* Lines 37-38.
PeriodsPerYear(freq) ==
    IF freq = 31 THEN PositiveValue
    ELSE IF freq # 0 THEN PositiveValue ELSE NanValue

\* len(returns[returns > 0]) and len(returns[returns < 0]) on the local rets.
UpPeriods(r) == Cardinality({k \in 1 .. Len(r) : isfinite(r[k]) /\ r[k][2] > 0})
DownPeriods(r) == Cardinality({k \in 1 .. Len(r) : isfinite(r[k]) /\ r[k][2] < 0})

\* compute_gmean, lines 85-94, with compute_num_periods, lines 68-71.
Gmean(n_timestamps, n_returns, periods_per_year) ==
    IF n_returns = 0 THEN Ok(NanValue)
    ELSE IF n_returns # n_timestamps THEN Raise("AssertionError")
    ELSE Ok(FloatValue)

\* compute_sharpe and compute_sortino, lines 115 and 135: the guard. A NaN
\* periods_per_year is not <= 0; a float of unknown sign is taken as <= 0.
RatioGuard(n_returns, amean, periods_per_year) ==
    n_returns = 0 \/ amean = NanValue \/ periods_per_year \notin {PositiveValue, NanValue}

\* compute_k_ratio, lines 164-180: a regression on the logarithm of equity.
KRatio(n_equity) == Ok(FloatValue)

\* rolling_dd[0] and rolling_dd[1] in the lambdas of lines 484-486 and 494-499:
\* indexing the single empty array compute_rolling_dd_3yr returns for no
\* timestamps raises IndexError.
Unpacks(rolling) == IsPair(rolling)

\* compute_maxdd_pct, lines 206-207, on rolling_dd[1].
MaxddPct(rolling) ==
    IF ~Unpacks(rolling) THEN Raise("IndexError")
    ELSE IF PairLen(rolling) = 0 THEN Ok(NanValue) ELSE Ok(FloatValue)

\* compute_maxdd_date, lines 212-214, on rolling_dd[0], rolling_dd[1].
MaxddDate(rolling) ==
    IF ~Unpacks(rolling) THEN Raise("IndexError")
    ELSE IF PairLen(rolling) = 0 THEN Ok(NaTValue) ELSE Ok(DateValue)

\* compute_maxdd_start, lines 220-224; DateValue stands for the date found or
\* the NaT of line 223, which the data decide.
MaxddStart(rolling, date) ==
    IF ~Unpacks(rolling) THEN Raise("IndexError")
    ELSE IF PairLen(rolling) = 0 \/ date = NaTValue THEN Ok(NaTValue) ELSE Ok(DateValue)

\* compute_mar, lines 229-230.
Mar(n_returns, mdd_pct) ==
    IF n_returns = 0 \/ mdd_pct = NanValue THEN Ok(NanValue) ELSE Ok(FloatValue)

\* compute_annual_returns, lines 310-318: the assert, then one compute_gmean
\* for every year.
AnnualReturns(n_timestamps, n_returns, periods_per_year) ==
    IF n_timestamps # n_returns \/ periods_per_year # PositiveValue
    THEN Raise("AssertionError")
    ELSE Ok(Pair(n_timestamps))

\* The number of dates compute_rolling_dd_3yr keeps (lines 257-258); equity
\* has as many entries as timestamps there, so timestamps stands in for it.
RollingDd3yrLen(ts) == Len(compute_rolling_dd_3yr(ts, ts)[1])

\* The result of calling func with the keyword arguments a.
Outcome(func, a) ==
    CASE func = "compute_periods_per_year" ->
            IF ArrayLen(a.timestamps) = 0 THEN Ok(NanValue)
            ELSE UNION {Ok(PeriodsPerYear(freq)) : freq \in infer_frequency(timestamps)}
      [] func = "compute_amean" ->
            IF ArrayLen(a.returns) = 0 \/ a.periods_per_year = NanValue
            THEN Ok(NanValue) ELSE Ok(FloatValue)
      [] func = "compute_std" ->
            IF ArrayLen(a.returns) = 0 THEN Ok(NanValue) ELSE Ok(FloatValue)
      [] func = "lambda_up_periods" -> Ok(Count(UpPeriods(rets)))
      [] func = "lambda_down_periods" -> Ok(Count(DownPeriods(rets)))
      [] func = "lambda_up_pct" ->
            IF CountOf(a.up_periods) + CountOf(a.down_periods) # 0
            THEN Ok(FloatValue) ELSE Ok(NanValue)
      [] func = "compute_gmean" ->
            Gmean(ArrayLen(a.timestamps), ArrayLen(a.returns), a.periods_per_year)
      [] func \in {"compute_sharpe", "compute_sortino"} ->
            IF RatioGuard(ArrayLen(a.returns), a.amean, a.periods_per_year)
            THEN Ok(NanValue) ELSE Ok(FloatValue)
      [] func = "compute_equity" -> Ok(Array(ArrayLen(a.returns)))
      [] func \in {"compute_k_ratio", "lambda_k_ratio_weighted"} ->
            KRatio(ArrayLen(a.equity))
      [] func = "compute_rolling_dd" ->
            IF ArrayLen(a.timestamps) # ArrayLen(a.equity) THEN Raise("AssertionError")
            ELSE Ok(Pair(ArrayLen(a.timestamps)))
      [] func = "lambda_mdd_pct" -> MaxddPct(a.rolling_dd)
      [] func = "lambda_mdd_date" -> MaxddDate(a.rolling_dd)
      [] func = "lambda_mdd_start" -> MaxddStart(a.rolling_dd, a.mdd_date)
      [] func = "compute_mar" -> Mar(ArrayLen(a.returns), a.mdd_pct)
      [] func = "compute_dates_3yr" -> Ok(Array(Len(compute_dates_3yr(timestamps))))
      [] func = "compute_returns_3yr" ->
            IF ArrayLen(a.timestamps) = 0 THEN Ok(Array(0))
            ELSE IF ArrayLen(a.timestamps) # ArrayLen(a.returns) THEN Raise("AssertionError")
            ELSE Ok(Array(Len(compute_returns_3yr(timestamps, rets))))
      [] func = "compute_rolling_dd_3yr" ->
            IF ArrayLen(a.timestamps) = 0 THEN Ok(Array(0))
            ELSE IF ArrayLen(a.timestamps) # ArrayLen(a.equity) THEN Raise("IndexError")
            ELSE Ok(Pair(RollingDd3yrLen(timestamps)))
      [] func = "lambda_mdd_pct_3yr" -> MaxddPct(a.rolling_dd_3yr)
      [] func = "lambda_mdd_date_3yr" -> MaxddDate(a.rolling_dd_3yr)
      [] func = "lambda_mdd_start_3yr" -> MaxddStart(a.rolling_dd_3yr, a.mdd_date_3yr)
      [] func = "compute_calmar" -> Mar(ArrayLen(a.returns_3yr), a.mdd_pct_3yr)
      [] func = "compute_annual_returns" ->
            AnnualReturns(ArrayLen(a.timestamps), ArrayLen(a.returns), a.periods_per_year)
      [] func = "compute_bucketed_returns" ->
            IF ArrayLen(a.timestamps) # ArrayLen(a.returns) THEN Raise("AssertionError")
            ELSE Ok(Pair(ArrayLen(a.timestamps)))

\* pyqstrat.pq_utils.monotonically_increasing: whether the timestamps are
\* strictly increasing; what it says of no timestamps is left open.
monotonically_increasing(ts) == IF Len(ts) = 0 THEN BOOLEAN ELSE {Increasing(ts)}

PipeTimes == 1 .. (PipeLen + 2)
StartingEquities == {0, 1}

\* The caller's arguments: any two arrays, of any two lengths.
PipeInit ==
    /\ caller_timestamps \in SeqsUpTo(PipeTimes, PipeLen)
    /\ caller_rets \in SeqsUpTo(Floats, PipeLen)
    /\ input_timestamps = caller_timestamps
    /\ input_rets = caller_rets
    /\ orig_timestamps = caller_timestamps
    /\ orig_rets = caller_rets
    /\ timestamps = <<>>
    /\ rets = <<>>
    /\ leading_non_finite_to_zeros \in BOOLEAN
    /\ subsequent_non_finite_to_zeros \in BOOLEAN
    /\ first_non_nan_index = -1
    /\ lead_timestamps = <<>>
    /\ lead_rets = <<>>
    /\ pc = "idle"
    /\ nsan = 0
    /\ starting_equity \in StartingEquities
    /\ rets_is_float64 \in BOOLEAN
    /\ timestamps_is_datetime64 \in BOOLEAN
    /\ ppc = "start"
    /\ bound = [name |-> "", args |-> <<>>]

\* compute_return_metrics is not being called.
PipeOff ==
    /\ starting_equity = 0
    /\ rets_is_float64 = FALSE
    /\ timestamps_is_datetime64 = FALSE
    /\ ppc = "off"
    /\ bound = [name |-> "", args |-> <<>>]

\* Lines 459-461, the three assert statements.
pipe_check ==
    /\ ppc = "start"
    /\ \E increasing \in monotonically_increasing(caller_timestamps) :
          ppc' = IF /\ starting_equity > 0
                    /\ rets_is_float64
                    /\ timestamps_is_datetime64 /\ increasing
                 THEN "checked" ELSE "AssertionError"
    /\ UNCHANGED <<starting_equity, rets_is_float64, timestamps_is_datetime64, bound>>
    /\ UNCHANGED <<evars, svars, lvars>>

\* Line 463, the call; its body is leading_step and subsequent_step.
pipe_sanitize ==
    /\ ppc = "checked"
    /\ pc = "idle"
    /\ handle_non_finite_returns(leading_non_finite_to_zeros, subsequent_non_finite_to_zeros)

\* Lines 465-503: the Evaluator with its three seeds and its 26 recipes.
pipe_register ==
    /\ ppc = "checked"
    /\ pc = "done"
    /\ ppc' = "registered"
    /\ metric_values' =
          [n \in PipeNames |->
              IF n = "timestamps" THEN Array(Len(timestamps))
              ELSE IF n = "returns" THEN Array(Len(rets))
              ELSE IF n = "starting_equity" THEN PositiveValue
              ELSE Absent]
    /\ _metrics' = AddAll(<<>>, Registrations)
    /\ UNCHANGED <<pending, stack, status, op, target, entry, calls, nadds, ncalls>>
    /\ UNCHANGED <<starting_equity, rets_is_float64, timestamps_is_datetime64, bound>>
    /\ UNCHANGED <<svars, lvars>>

\* Line 505, ev.compute(), called once.
pipe_compute ==
    /\ ppc = "registered"
    /\ ncalls = 0
    /\ compute

\* Lines 371-373 for the functions of compute_return_metrics: the call with
\* the dependency values as keyword arguments ends in a value, which is
\* stored, or in an exception, which ends compute() and the whole call.
pipe_invoke ==
    /\ ppc = "registered"
    /\ status = "running"
    /\ stack # <<>>
    /\ Top.i > Len(TopDeps)
    /\ LET func == Recipe(_metrics, Top.name).func
           a == Bind(Params(func), TopDeps, metric_values)
       IN  IF \E k \in 1 .. Len(TopDeps) : ~Resolved(metric_values, TopDeps[k])
           THEN /\ status' = "KeyError"
                /\ stack' = <<>>
                /\ pending' = <<>>
                /\ UNCHANGED <<metric_values, calls, bound>>
           ELSE IF BindFails(func, TopDeps)
           THEN /\ status' = "TypeError"
                /\ stack' = <<>>
                /\ pending' = <<>>
                /\ UNCHANGED <<metric_values, calls, bound>>
           ELSE \E o \in Outcome(func, a) :
                /\ bound' = [name |-> Top.name, args |-> a]
                /\ calls' = [calls EXCEPT ![Top.name] = @ + 1]
                /\ IF o.err = "none"
                   THEN /\ metric_values' = [metric_values EXCEPT ![Top.name] = o.val]
                        /\ stack' = Return(stack)
                        /\ UNCHANGED <<status, pending>>
                   ELSE /\ status' = o.err
                        /\ stack' = <<>>
                        /\ pending' = <<>>
                        /\ UNCHANGED metric_values
    /\ UNCHANGED <<_metrics, op, target, entry, nadds, ncalls>>
    /\ UNCHANGED <<ppc, starting_equity, rets_is_float64, timestamps_is_datetime64>>
    /\ UNCHANGED <<svars, lvars>>

\* Line 506, return ev.
pipe_return ==
    /\ ppc = "registered"
    /\ status = "ok"
    /\ ppc' = "returned"
    /\ UNCHANGED <<starting_equity, rets_is_float64, timestamps_is_datetime64, bound>>
    /\ UNCHANGED <<evars, svars, lvars>>

PipeNext ==
    \/ pipe_check
    \/ pipe_sanitize
    \/ leading_step
    \/ subsequent_step
    \/ pipe_register
    \/ pipe_compute
    \/ compute_loop
    \/ dependency_loop
    \/ pipe_invoke
    \/ pipe_return

(***************************************************************************)
(* Specifications, one for each part looked at on its own.                 *)
(***************************************************************************)
Init == EvalInit /\ SanOff /\ LibOff /\ PipeOff
Next == EvalNext
Spec == Init /\ [][Next]_vars

\* A call, once made, runs to its end: the code is sequential and nothing
\* suspends it.
FairSpec ==
    Spec /\ WF_vars(compute_loop) /\ WF_vars(dependency_loop) /\ WF_vars(invoke)

SanSpecInit == SanInit /\ EvalOff /\ LibOff /\ PipeOff
SanSpec == SanSpecInit /\ [][SanNext]_vars

LibSpecInit == LibInit /\ EvalOff /\ SanOff /\ PipeOff
LibSpec == LibSpecInit /\ [][LibNext]_vars

PipeSpecInit == PipeInit /\ EvalOff /\ LibOff
PipeSpec == PipeSpecInit /\ [][PipeNext]_vars

(***************************************************************************)
(* Properties of the Evaluator, under Spec (termination under FairSpec).   *)
(***************************************************************************)
\* The names the recipe of n lists as dependencies (none when n has no recipe).
Deps(reg, n) ==
    IF Registered(reg, n)
    THEN {Recipe(reg, n).dependencies[k] : k \in 1 .. Len(Recipe(reg, n).dependencies)}
    ELSE {}

\* The names reached from the set S along dependency edges in at most k steps,
\* going on only through the names for which through holds.
RECURSIVE Closure(_, _, _, _)
Closure(reg, S, through, k) ==
    IF k = 0 THEN S
    ELSE Closure(reg, S \cup UNION {Deps(reg, m) : m \in S \cap through}, through, k - 1)

\* Every direct or transitive dependency of n.
Reach(reg, n) == Closure(reg, Deps(reg, n), Names, Cardinality(Names))

\* The dependencies of n that resolution gets to when it starts from the values
\* mv: the direct ones, and those of every reached name that has no value yet.
ReachUnresolved(reg, mv, n) ==
    Closure(reg, Deps(reg, n), {m \in Names : mv[m] = Absent}, Cardinality(Names))

Acyclic(reg) == \A n \in Names : n \notin Reach(reg, n)

\* Every dependency named by a recipe has a value in mv or a recipe.
Closed(reg, mv) ==
    \A n \in Names : \A d \in Deps(reg, n) : mv[d] # Absent \/ Registered(reg, d)

\* d has neither a value in mv nor a recipe.
Missing(reg, mv, d) == mv[d] = Absent /\ ~Registered(reg, d)

\* The place of a registered name in the registration order.
Position(reg, n) == CHOOSE i \in 1 .. Len(reg) : reg[i].name = n

\* C1: compute_metric called for a name that already has a value keeps that
\* value and does not invoke the name's function again.
C1_ComputeMetricKeepsCached ==
    (op = "compute_metric" /\ status = "ok" /\ entry[target] # Absent) =>
        (calls[target] = 0 /\ metric_values[target] = entry[target])

\* C2: within one compute() pass over an acyclic registry, whatever the
\* registration order, no recipe's function is invoked more than once.
C2_AtMostOncePerPass ==
    (op = "compute" /\ Acyclic(_metrics)) => \A n \in Names : calls[n] <= 1

\* C3: whenever a recipe's function is invoked (by compute or compute_metric,
\* for any registry and registration order), every dependency the recipe
\* declares has a value in metric_values at that moment.
C3_DependenciesBeforeInvoke ==
    [][\A n \in Names :
          calls'[n] = calls[n] + 1 =>
              \A d \in Deps(_metrics, n) : metric_values[d] # Absent]_vars

\* A compute() over an acyclic registry has invoked a function one of whose
\* dependencies had no value when the call began and was registered after it.
C3_Witness ==
    /\ op = "compute"
    /\ Acyclic(_metrics)
    /\ \E n \in Names : \E d \in Deps(_metrics, n) :
          /\ calls[n] = 1
          /\ calls[d] >= 1
          /\ entry[d] = Absent
          /\ Position(_metrics, n) < Position(_metrics, d)

\* After a compute() on an acyclic registry in which every dependency is seeded
\* or registered: it has returned normally, and every seed and every registered
\* name has a value.
ComputeFilledEverything ==
    (op = "compute" /\ status # "running" /\ Acyclic(_metrics) /\ Closed(_metrics, entry)) =>
        /\ status = "ok"
        /\ \A n \in Names :
              (entry[n] # Absent \/ Registered(_metrics, n)) => metric_values[n] # Absent

\* C4: compute() without names, on an acyclic registry in which every dependency
\* is seeded or registered, terminates (it returns normally), and then every seed
\* and every registered name has a value, whatever the registration order.
C4_ComputeTerminatesAndFills ==
    /\ []ComputeFilledEverything
    /\ (op = "compute" /\ status = "running" /\ Acyclic(_metrics) /\ Closed(_metrics, entry))
          ~> (op = "compute" /\ status = "ok")

\* A compute() has returned on two recipes, the first registered depending on
\* the second, which had no value before.
C4_Witness ==
    /\ op = "compute"
    /\ status = "ok"
    /\ Acyclic(_metrics)
    /\ Len(_metrics) = 2
    /\ _metrics[2].name \in Deps(_metrics, _metrics[1].name)
    /\ entry[_metrics[2].name] = Absent
    /\ entry[_metrics[1].name] = Absent
    /\ metric_values[_metrics[1].name] # Absent

\* C5 as stated: compute_metric on a name with a direct or transitive dependency
\* that has neither a value nor a recipe fails, and stores nothing for the name.
C5_MissingDependencyFails ==
    (/\ op = "compute_metric"
     /\ status # "running"
     /\ Registered(_metrics, target)
     /\ \E d \in Reach(_metrics, target) : Missing(_metrics, entry, d)) =>
        /\ status \in {"KeyError", "RecursionError"}
        /\ metric_values[target] = entry[target]

\* C5 as amended: the same for a dependency that is direct, or is reached through
\* dependencies none of which has a value yet (a dependency that already has a
\* value is not looked into).
C5_ReachedMissingDependencyFails ==
    (/\ op = "compute_metric"
     /\ status # "running"
     /\ Registered(_metrics, target)
     /\ \E d \in ReachUnresolved(_metrics, entry, target) : Missing(_metrics, entry, d)) =>
        /\ status \in {"KeyError", "RecursionError"}
        /\ metric_values[target] = entry[target]

\* A compute_metric call has failed with KeyError on a name all of whose direct
\* dependencies have a value or a recipe: what is missing is further down.
C5_Witness ==
    /\ op = "compute_metric"
    /\ status = "KeyError"
    /\ Registered(_metrics, target)
    /\ \A d \in Deps(_metrics, target) : ~Missing(_metrics, entry, d)
    /\ \E d \in ReachUnresolved(_metrics, entry, target) : Missing(_metrics, entry, d)
    /\ metric_values[target] = Absent

\* C6: compute_metric on a name that depends on itself, directly or through
\* names none of which has a value, ends in a CycleDetected failure. (Every
\* dependency has a value or a recipe here, so nothing else can fail.)
C6_CycleDetected ==
    (/\ op = "compute_metric"
     /\ status # "running"
     /\ Closed(_metrics, entry)
     /\ entry[target] = Absent
     /\ target \in ReachUnresolved(_metrics, entry, target)) =>
        status = "CycleDetected"

(***************************************************************************)
(* Properties of handle_non_finite_returns, checked under SanSpec.         *)
(***************************************************************************)
\* The 0-based index of the first finite entry of r, -1 if there is none.
FirstFinite(r) ==
    IF \E k \in 1 .. Len(r) : isfinite(r[k])
    THEN (CHOOSE k \in 1 .. Len(r) : isfinite(r[k]) /\ \A j \in 1 .. (k - 1) : ~isfinite(r[j])) - 1
    ELSE -1

AllNaN(r) == \A k \in 1 .. Len(r) : isnan(r[k])
NoneFinite(r) == \A k \in 1 .. Len(r) : ~isfinite(r[k])
FiniteMask(r) == [k \in 1 .. Len(r) |-> isfinite(r[k])]

\* C7: handle_non_finite_returns never changes the arrays the caller passed in:
\* at every moment, over any number of calls with any flags, the caller's
\* timestamps and rets hold what the caller put in them.
C7_InputsNeverMutated ==
    /\ caller_timestamps = input_timestamps
    /\ caller_rets = input_rets

\* C8 as stated: when no entry of rets is finite, the call returns timestamps
\* and rets identical to the ones passed in, whatever the flags.
C8_NoFiniteReturnsInputs ==
    (pc = "done" /\ NoneFinite(orig_rets)) =>
        (timestamps = orig_timestamps /\ rets = orig_rets)

\* C8 as amended: when every entry of rets is NaN, the leading step neither trims
\* nor zeroes (whatever leading_non_finite_to_zeros is) and the caller's array is
\* left as it was, but the second step still applies: with
\* subsequent_non_finite_to_zeros the result is all 0.0 over the input
\* timestamps, without it both results are empty.
C8_AllNaNOnlySecondStepActs ==
    (pc = "done" /\ AllNaN(orig_rets)) =>
        /\ lead_timestamps = orig_timestamps
        /\ lead_rets = orig_rets
        /\ caller_rets = orig_rets
        /\ IF subsequent_non_finite_to_zeros
           THEN /\ timestamps = orig_timestamps
                /\ rets = [k \in 1 .. Len(orig_rets) |-> Fin(0)]
           ELSE /\ timestamps = <<>>
                /\ rets = <<>>

\* A call on two or more NaNs and nothing else, asked to zero the leading
\* entries and to drop the others, has returned.
C8_Witness ==
    /\ pc = "done"
    /\ Len(orig_rets) >= 2
    /\ AllNaN(orig_rets)
    /\ leading_non_finite_to_zeros
    /\ ~subsequent_non_finite_to_zeros
    /\ rets = <<>>

\* C9: with i the index of the first finite entry and i > 0, the leading step
\* with leading_non_finite_to_zeros puts 0.0 in every entry before i and keeps
\* the length, and without it removes exactly the entries before i from both
\* arrays, whether those entries are NaN or infinite.
C9_LeadingUpToFirstFinite ==
    (pc \in {"subsequent", "done"} /\ FirstFinite(orig_rets) > 0) =>
        LET i == FirstFinite(orig_rets)
        IN  IF leading_non_finite_to_zeros
            THEN /\ lead_timestamps = orig_timestamps
                 /\ lead_rets = [k \in 1 .. Len(orig_rets) |->
                                    IF k <= i THEN Fin(0) ELSE orig_rets[k]]
            ELSE /\ lead_timestamps = SubSeq(orig_timestamps, i + 1, Len(orig_timestamps))
                 /\ lead_rets = SubSeq(orig_rets, i + 1, Len(orig_rets))

\* C10: after the leading step every entry that is not finite (NaN, +infinity,
\* -infinity) is treated alike: with subsequent_non_finite_to_zeros each becomes
\* exactly 0.0 and nothing is removed, without it each is removed with its
\* timestamp and every finite entry is kept.
C10_RemainingNonFiniteAlike ==
    (pc = "done") =>
        IF subsequent_non_finite_to_zeros
        THEN /\ timestamps = lead_timestamps
             /\ rets = [k \in 1 .. Len(lead_rets) |->
                           IF isfinite(lead_rets[k]) THEN lead_rets[k] ELSE Fin(0)]
        ELSE /\ timestamps = Mask(lead_timestamps, FiniteMask(lead_rets))
             /\ rets = Mask(lead_rets, FiniteMask(lead_rets))

\* The place of a timestamp in the array the call was given (timestamps are
\* strictly increasing, so a timestamp names one place).
OrigPosition(t) == CHOOSE j \in 1 .. Len(orig_timestamps) : orig_timestamps[j] = t

\* C11: for arrays of equal length and every flag combination, the two arrays
\* returned have equal length, the returned timestamps are a subsequence of
\* the given ones in their order, and every returned value sits at the place
\* of the timestamp it was paired with: it is the given value of that
\* timestamp, or what np.nan_to_num makes of it.
C11_OutputsStayPaired ==
    pc = "done" =>
        /\ Len(timestamps) = Len(rets)
        /\ \A k \in 1 .. Len(timestamps) :
              \E j \in 1 .. Len(orig_timestamps) : orig_timestamps[j] = timestamps[k]
        /\ \A k \in 1 .. (Len(timestamps) - 1) :
              OrigPosition(timestamps[k]) < OrigPosition(timestamps[k + 1])
        /\ \A k \in 1 .. Len(timestamps) :
              rets[k] \in {orig_rets[OrigPosition(timestamps[k])],
                           nan_to_num(orig_rets[OrigPosition(timestamps[k])])}

\* A call that dropped an entry, kept at least two and gave back a pair whose
\* first timestamp is not the first one given.
C11_Witness ==
    /\ pc = "done"
    /\ Len(rets) >= 2
    /\ Len(rets) < Len(orig_rets)
    /\ timestamps[1] # orig_timestamps[1]

\* C19: for every input and flag combination the returned values hold no NaN
\* and no infinity, and handle_non_finite_returns applied with the same flags
\* to the pair it returned gives that pair back unchanged.
C19_OutputFiniteAndStable ==
    pc = "done" =>
        /\ \A k \in 1 .. Len(rets) : isfinite(rets[k])
        /\ handle_non_finite_returns_result(timestamps, rets,
               leading_non_finite_to_zeros, subsequent_non_finite_to_zeros)
           = <<timestamps, rets>>

\* A call given both a NaN and an infinity that returned a non-empty pair.
C19_Witness ==
    /\ pc = "done"
    /\ \E k \in 1 .. Len(orig_rets) : isnan(orig_rets[k])
    /\ \E k \in 1 .. Len(orig_rets) : orig_rets[k] \in {PosInf, NegInf}
    /\ rets # <<>>

(***************************************************************************)
(* Properties of the drawdown and 3-year functions, under LibSpec.         *)
(***************************************************************************)
\* A drawdown fraction is >= 0 (a positive numerator over 0 is +infinity).
NonNegative(x) == IF x[2] = 0 THEN x[1] > 0 ELSE x[1] * x[2] >= 0

\* A drawdown fraction is exactly 0.
IsZero(x) == x[1] = 0 /\ x[2] # 0

\* Every rolling_dd value is >= 0, and 0 where equity is at its running maximum.
DrawdownsInRange ==
    \A k \in 1 .. Len(lib_values) :
        /\ NonNegative(rolling_dd[2][k])
        /\ lib_values[k] = RollingMax(lib_values, k) => IsZero(rolling_dd[2][k])

\* C14 as stated: for every equity sequence of finite values, every
\* rolling_dd value is >= 0 and is 0 where equity equals its running maximum.
C14_DrawdownsNeverNegative ==
    "rolling_dd" \in applied => DrawdownsInRange

\* C14: for every equity sequence of finite values whose first value is not
\* negative (so that the running maximum never is), every rolling_dd value
\* is >= 0 and is 0 where equity equals its running maximum.
C14_DrawdownsOfNonNegativePeak ==
    ("rolling_dd" \in applied /\ lib_values # <<>> /\ lib_values[1] >= 0) =>
        DrawdownsInRange

\* A positive equity curve that falls below its peak and later sets a new one.
C14_Witness ==
    /\ "rolling_dd" \in applied
    /\ Len(lib_values) = 3
    /\ lib_values[1] > 0
    /\ lib_values[2] < lib_values[1]
    /\ lib_values[3] > lib_values[1]
    /\ ~IsZero(rolling_dd[2][2])

\* The dates of a rolling_dd_3yr result (the result for no timestamps is a
\* single empty array, read here as no dates) and its drawdowns.
Dates3yr(r) == IF r = <<>> THEN <<>> ELSE r[1]
Drawdowns3yr(r) == IF r = <<>> THEN <<>> ELSE r[2]

\* C15: for every strictly increasing timestamps, the dates of rolling_dd_3yr
\* are exactly timestamps_3yr, and the window has the length of returns_3yr,
\* also when a timestamp lies exactly three years before the last one.
C15_SameWindow ==
    "3yr" \in applied =>
        /\ Dates3yr(rolling_dd_3yr) = timestamps_3yr
        /\ Len(Drawdowns3yr(rolling_dd_3yr)) = Len(returns_3yr)
        /\ Len(timestamps_3yr) = Len(returns_3yr)

\* The places of the series before date whose drawdown is <= 0.
StartCandidates(date) ==
    {j \in 1 .. Len(lib_values) : lib_timestamps[j] < date /\ lib_values[j] <= 0}

\* C16: for a non-empty drawdown series compute_maxdd_date returns the date
\* at the first maximum of the drawdowns, and compute_maxdd_start returns the
\* latest date strictly before it whose drawdown is <= 0, or NaT when there is
\* none (or when mdd_date is NaT, as for an empty series); the result is
\* never equal to or later than mdd_date.
C16_MaxddDateAndStart ==
    "maxdd" \in applied =>
        IF lib_values = <<>> THEN mdd_date = NaT /\ mdd_start = NaT
        ELSE /\ \E i \in 1 .. Len(lib_values) :
                   /\ mdd_date = lib_timestamps[i]
                   /\ \A j \in 1 .. Len(lib_values) : lib_values[j] <= lib_values[i]
                   /\ \A j \in 1 .. (i - 1) : lib_values[j] < lib_values[i]
             /\ IF StartCandidates(mdd_date) = {} THEN mdd_start = NaT
                ELSE \E j \in StartCandidates(mdd_date) :
                        /\ mdd_start = lib_timestamps[j]
                        /\ \A i \in StartCandidates(mdd_date) :
                              lib_timestamps[i] <= lib_timestamps[j]
             /\ mdd_start = NaT \/ mdd_start < mdd_date

\* A series of three whose maximum comes last, after two dates of which the
\* first has a drawdown <= 0 and the second is the start returned.
C16_Witness ==
    /\ "maxdd" \in applied
    /\ Len(lib_values) = 3
    /\ mdd_date = lib_timestamps[3]
    /\ mdd_start = lib_timestamps[2]
    /\ lib_values[1] <= 0

\* The maximum is itself <= 0 and comes first: there is no start.
C16_WitnessNoStart ==
    /\ "maxdd" \in applied
    /\ Len(lib_values) >= 2
    /\ mdd_date = lib_timestamps[1]
    /\ lib_values[1] <= 0
    /\ mdd_start = NaT

(***************************************************************************)
(* Properties of compute_return_metrics, under PipeSpec.                   *)
(***************************************************************************)
\* What the spec requires of the arguments, said of the arrays as passed.
PreconditionsHold ==
    /\ starting_equity > 0
    /\ rets_is_float64
    /\ timestamps_is_datetime64
    /\ Increasing(input_timestamps)
    /\ Len(input_timestamps) = Len(input_rets)

\* The call has ended in an exception.
PipeRaised ==
    \/ ppc = "AssertionError"
    \/ pc = "IndexError"
    \/ ppc = "registered" /\ status \notin {"idle", "running", "ok"}

\* C12: compute_return_metrics checks every precondition (starting_equity > 0,
\* a float array, strictly increasing datetime timestamps, equal lengths)
\* before it sanitizes or computes: with a violated precondition the call
\* gets no further than the failing check, and no metric function is invoked.
C12_ViolationStopsAtCheck ==
    ~PreconditionsHold =>
        /\ ppc \in {"start", "AssertionError"}
        /\ pc = "idle"
        /\ bound.name = ""

\* C13: for returns that are all non-finite (and arguments that meet the
\* preconditions), under every flag combination the call does not raise, and
\* the engine it returns has a value for every registered metric.
C13_DegenerateInputCompletes ==
    (PreconditionsHold /\ input_rets # <<>> /\ NoneFinite(input_rets)) =>
        /\ ~PipeRaised
        /\ ppc = "returned" =>
              \A i \in 1 .. Len(_metrics) : metric_values[_metrics[i].name] # Absent

\* C17: a recipe's function is called with exactly the values of its declared
\* dependencies, each bound to the parameter of that name; sharpe and
\* sortino, registered as (returns, periods_per_year, amean) and defined as
\* (returns, amean, periods_per_year), get amean as amean and
\* periods_per_year as periods_per_year.
C17_BoundByName ==
    bound.name # "" =>
        /\ DOMAIN bound.args = ToSet(Recipe(_metrics, bound.name).dependencies)
        /\ \A q \in DOMAIN bound.args : bound.args[q] = metric_values[q]

\* sharpe has been called with an amean and a periods_per_year that differ.
C17_Witness ==
    /\ bound.name = "sharpe"
    /\ metric_values["amean"] = FloatValue
    /\ metric_values["periods_per_year"] = PositiveValue
    /\ bound.args["amean"] = FloatValue
    /\ bound.args["periods_per_year"] = PositiveValue

\* Every recipe comes after the recipes it depends on.
RegisteredAfterDependencies(reg) ==
    \A i \in 1 .. Len(reg) :
        \A d \in ToSet(reg[i].dependencies) :
            d \in Seeds \/ \E j \in 1 .. (i - 1) : reg[j].name = d

\* The compute() of line 505 has ended, normally or not.
ComputeEnded == ppc \in {"registered", "returned"} /\ op = "compute" /\ status # "running"

\* C18: in compute_return_metrics every recipe is registered after the
\* recipes it depends on and none under a seed's name; hence the one
\* compute() call (on arguments that meet the preconditions) invokes every
\* registered function exactly once and leaves the seeds as they were.
C18_EachRecipeOnce ==
    ppc \in {"registered", "returned"} =>
        /\ RegisteredAfterDependencies(_metrics)
        /\ \A i \in 1 .. Len(_metrics) : _metrics[i].name \notin Seeds
        /\ (ComputeEnded /\ PreconditionsHold) =>
              /\ \A i \in 1 .. Len(_metrics) : calls[_metrics[i].name] = 1
              /\ \A s \in Seeds : metric_values[s] = entry[s]

====
